---- MODULE Spec2Model ----
(***************************************************************************)
(* A model of the chessire-utils position model: the coordinate type, the  *)
(* 64-square board with its FEN piece-placement decoder, and the ChessGame *)
(* aggregate with its 6-field FEN decoder.                                 *)
(*                                                                         *)
(* A Rust string is a sequence of one-character strings.  Option<T> is a   *)
(* sequence of length 0 (None) or 1 (Some).  A call ends "ok", "err"       *)
(* (Result::Err) or "panic" (the thread unwinds and the program stops).    *)
(***************************************************************************)
EXTENDS Integers, Sequences, FiniteSets, TLC

VARIABLES
    game,     \* the ChessGame
    pre,      \* the ChessGame as it was before the last call
    op,       \* the last call
    arg,      \* its argument
    ret,      \* how it ended, and what it returned
    nplace    \* the direct calls of Board::set_position_from_fen so far

vars == <<game, pre, op, arg, ret, nplace>>

\* ------------------------------------------------------------ characters

Chars(s) == [i \in 1..Len(s) |-> SubSeq(s, i, i)]

Range(f) == {f[i] : i \in DOMAIN f}

IndexOf(seq, c) == CHOOSE i \in 1..Len(seq) : seq[i] = c

LowerLetters == Chars("abcdefghijklmnopqrstuvwxyz")
UpperLetters == Chars("ABCDEFGHIJKLMNOPQRSTUVWXYZ")
Digits == Chars("0123456789")

LowerSet == Range(LowerLetters)
UpperSet == Range(UpperLetters)
DigitSet == Range(Digits)

\* char as u32: the code point of a character
Ord(c) ==
    IF c \in LowerSet THEN 96 + IndexOf(LowerLetters, c)
    ELSE IF c \in UpperSet THEN 64 + IndexOf(UpperLetters, c)
    ELSE IF c \in DigitSet THEN 47 + IndexOf(Digits, c)
    ELSE CASE c = " " -> 32
           [] c = "\t" -> 9
           [] c = "+" -> 43
           [] c = "-" -> 45
           [] c = "/" -> 47
           [] c = ":" -> 58
           [] c = "@" -> 64
           [] c = "_" -> 95

\* u8 as char, for the code points the model uses
Chr(n) ==
    IF n \in 97..122 THEN LowerLetters[n - 96]
    ELSE IF n \in 65..90 THEN UpperLetters[n - 64]
    ELSE IF n \in 48..57 THEN Digits[n - 47]
    ELSE CASE n = 32 -> " "
           [] n = 9 -> "\t"
           [] n = 43 -> "+"
           [] n = 45 -> "-"
           [] n = 47 -> "/"
           [] n = 58 -> ":"
           [] n = 64 -> "@"
           [] n = 95 -> "_"
           [] OTHER -> "?"

\* as to_ascii_lowercase, the case left as it is
to_ascii_lowercase_identity(n) == n

to_ascii_lowercase(n) == IF n \in 65..90 THEN n + 32 ELSE n

is_ascii_digit(c) == c \in DigitSet

to_digit(c) == IndexOf(Digits, c) - 1

is_ascii_whitespace(c) == c \in {" ", "\t", "\n", "\r", "\f"}

\* str::split_ascii_whitespace: the maximal runs of non-whitespace characters
RECURSIVE split_ws(_, _, _)
split_ws(s, cur, acc) ==
    IF s = <<>> THEN (IF cur = <<>> THEN acc ELSE Append(acc, cur))
    ELSE IF is_ascii_whitespace(Head(s))
         THEN split_ws(Tail(s), <<>>, IF cur = <<>> THEN acc ELSE Append(acc, cur))
         ELSE split_ws(Tail(s), Append(cur, Head(s)), acc)

split_ascii_whitespace(s) == split_ws(s, <<>>, <<>>)

\* str::split(sep): the pieces between separators, empty pieces included
RECURSIVE split_on(_, _, _, _)
split_on(s, sep, cur, acc) ==
    IF s = <<>> THEN Append(acc, cur)
    ELSE IF Head(s) = sep
         THEN split_on(Tail(s), sep, <<>>, Append(acc, cur))
         ELSE split_on(Tail(s), sep, Append(cur, Head(s)), acc)

split(s, sep) == split_on(s, sep, <<>>, <<>>)

\* str::find(c) != None
contains(s, c) == \E i \in 1..Len(s) : s[i] = c

\* ------------------------------------------------------------ values

None == <<>>
Some(x) == <<x>>

White == "White"
Black == "Black"
Color == {White, Black}

Piece(kind, color) == [kind |-> kind, color |-> color]

Coord(file, rank) == [file |-> file, rank |-> rank]

\* as to_usize, file and rank the other way round
to_usize_transposed(c) == c.rank + c.file * 8

to_usize(c) == c.file + c.rank * 8

\* as next_up, the edge one rank too far
next_up_past_edge(c) ==
    IF c.rank < 8 THEN Some(Coord(c.file, c.rank + 1)) ELSE None

next_up(c) ==
    IF c.rank < 7 THEN Some(Coord(c.file, c.rank + 1)) ELSE None

next_down(c) ==
    IF c.rank > 0 THEN Some(Coord(c.file, c.rank - 1)) ELSE None

next_left(c) ==
    IF c.file > 0 THEN Some(Coord(c.file - 1, c.rank)) ELSE None

next_right(c) ==
    IF c.file < 7 THEN Some(Coord(c.file + 1, c.rank)) ELSE None

\* Option::unwrap_or
unwrap_or(opt, default) == IF opt = None THEN default ELSE opt[1]

\* u8 subtraction: a debug build panics below zero, a release build wraps
sub_u8(a, b) ==
    IF a >= b THEN {[status |-> "ok", value |-> a - b]}
    ELSE {[status |-> "panic", value |-> 0], [status |-> "ok", value |-> a - b + 256]}

\* char as u8
as_u8(c) == Ord(c) % 256

\* <Coord as FromStr>::from_str: every way the call can end
from_str(s) ==
    IF Len(s) < 1 THEN {[status |-> "panic", value |-> None]}
    ELSE UNION {
      IF file.status # "ok" \/ Len(s) < 2 THEN {[status |-> "panic", value |-> None]}
      ELSE UNION {
        IF r0.status # "ok" THEN {[status |-> "panic", value |-> None]}
        ELSE {IF rank.status # "ok" THEN [status |-> "panic", value |-> None]
              ELSE [status |-> "ok", value |-> Some(Coord(file.value, rank.value))]
                : rank \in sub_u8(r0.value, 1)}
          : r0 \in sub_u8(to_ascii_lowercase(as_u8(s[2])), 48)}
        : file \in sub_u8(to_ascii_lowercase(as_u8(s[1])), 97)}

\* the file letter: num < 8 wherever the model formats a Coord, so the u8
\* addition does not overflow
to_char(num) == Chr(to_ascii_lowercase((num % 256) + 97))

\* usize formatted with {}
RECURSIVE to_decimal(_)
to_decimal(n) ==
    IF n < 10 THEN <<Digits[n + 1]>> ELSE Append(to_decimal(n \div 10), Digits[(n % 10) + 1])

\* <Coord as Display>::fmt
to_string(c) == <<to_char(c.file)>> \o to_decimal(c.rank + 1)

new_from_fen_char(c) ==
    CASE c = "P" -> Some(Piece("Pawn", White))
      [] c = "N" -> Some(Piece("Knight", White))
      [] c = "B" -> Some(Piece("Bishop", White))
      [] c = "R" -> Some(Piece("Rook", White))
      [] c = "Q" -> Some(Piece("Queen", White))
      [] c = "K" -> Some(Piece("King", White))
      [] c = "p" -> Some(Piece("Pawn", Black))
      [] c = "n" -> Some(Piece("Knight", Black))
      [] c = "b" -> Some(Piece("Bishop", Black))
      [] c = "r" -> Some(Piece("Rook", Black))
      [] c = "q" -> Some(Piece("Queen", Black))
      [] c = "k" -> Some(Piece("King", Black))
      [] OTHER -> None

\* ------------------------------------------------------------ Board

Tiles == 0..63

EmptySquares == [t \in Tiles |-> None]

\* as place_chars, a character that is no piece letter passed over
RECURSIVE place_chars_skipping(_, _, _, _)
place_chars_skipping(board, cs, file, rank) ==
    IF cs = <<>> THEN [board |-> board, status |-> "ok"]
    ELSE LET c == Head(cs) IN
         IF is_ascii_digit(c)
         THEN place_chars_skipping(board, Tail(cs), file + to_digit(c), rank)
         ELSE IF new_from_fen_char(c) = None
         THEN place_chars_skipping(board, Tail(cs), file, rank)
         ELSE LET t == to_usize(Coord(file, rank)) IN
              IF t \notin Tiles
              THEN [board |-> board, status |-> "panic"]
              ELSE place_chars_skipping(
                       [board EXCEPT !.squares[t] = new_from_fen_char(c)],
                       Tail(cs), file + 1, rank)

\* the characters of one rank string, from the file cursor file on
RECURSIVE place_chars(_, _, _, _)
place_chars(board, cs, file, rank) ==
    IF cs = <<>> THEN [board |-> board, status |-> "ok"]
    ELSE LET c == Head(cs) IN
         IF is_ascii_digit(c)
         THEN place_chars(board, Tail(cs), file + to_digit(c), rank)
         ELSE LET t == to_usize(Coord(file, rank)) IN
              IF t \notin Tiles
              THEN [board |-> board, status |-> "panic"]
              ELSE place_chars([board EXCEPT !.squares[t] = new_from_fen_char(c)],
                               Tail(cs), file + 1, rank)

\* the rank strings from the i-th (0-based) on
RECURSIVE place_blocks(_, _, _)
place_blocks(board, blocks, i) ==
    IF i >= Len(blocks) THEN [board |-> board, status |-> "ok"]
    ELSE LET r == place_chars(board, blocks[i + 1], 0, 7 - i) IN
         IF r.status # "ok" THEN r
         ELSE place_blocks(r.board, blocks, i + 1)

\* as block_count_ok, fewer groups accepted
block_count_at_most(blocks) == Len(blocks) <= 8

block_count_ok(blocks) == Len(blocks) = 8

set_position_from_fen(board, piece_placement) ==
    LET blocks == split(piece_placement, "/") IN
    IF ~block_count_ok(blocks) THEN [board |-> board, status |-> "err"]
    ELSE place_blocks(board, blocks, 0)

\* as board_clear, the selections kept
board_clear_keeps_selections(board) ==
    [squares |-> EmptySquares, selections |-> board.selections, perspective |-> White]

board_clear(board) ==
    [squares |-> EmptySquares, selections |-> <<>>, perspective |-> White]

add_selection(board, sel) ==
    [board EXCEPT !.selections = Append(@, sel)]

DEFAULT_PIECE_PLACEMENT == Chars("rnbqkbnr/pppppppp/8/8/8/8/PPPPPPPP/RNBQKBNR")

board_default ==
    set_position_from_fen(
        [squares |-> EmptySquares, selections |-> <<>>, perspective |-> White],
        DEFAULT_PIECE_PLACEMENT).board

\* ------------------------------------------------------------ ChessGame

castling_default ==
    [white_king_side |-> TRUE, white_queen_side |-> TRUE,
     black_king_side |-> TRUE, black_queen_side |-> TRUE]

game_default ==
    [board |-> board_default,
     castling_rights |-> castling_default,
     side_to_move |-> White,
     enpassant_target_square |-> None,
     halfmove_clock |-> 0,
     fullmove_clock |-> 1]

STARTING_FEN == Chars("rnbqkbnr/pppppppp/8/8/8/8/PPPPPPPP/RNBQKBNR w KQkq - 0 1")

\* the FEN records callers pass
Join6(p, s, c, e, h, f) ==
    Chars(p) \o <<" ">> \o Chars(s) \o <<" ">> \o Chars(c) \o <<" ">> \o Chars(e)
      \o <<" ">> \o Chars(h) \o <<" ">> \o Chars(f)

EnPassantSquares == {<<f, r>> : f \in {"a", "e", "h"}, r \in {"3", "6"}}

FenInputs ==
    \* well-formed records
    {STARTING_FEN,
     Chars("8/8/8/8/8/8/8/8 b - - 5 7"),
     Chars("  r3k2r/8/8/8/8/8/8/R3K2R\tB Kq - 12 +3  "),
     Chars("4k3/8/8/8/8/8/8/4K3 w - - 0 4294967296")}
    \* every en-passant square a double push can leave
    \cup {Join6("4k3/8/8/8/4P3/8/8/4K3", "b", "-", sq[1] \o sq[2], "0", "1")
             : sq \in EnPassantSquares}
    \* the side-to-move field
    \cup {Join6("4k3/8/8/8/8/8/8/4K3", s, "Qk", "-", "1", "2") : s \in {"w", "W", "b", "x", "bb"}}
    \* en-passant fields that name no double-push square
    \cup {Join6("4k3/8/8/8/8/8/8/4K3", "b", "K", e, "9", "x")
             : e \in {"e4", "e", "i3", "E3", "e3x", "-3", "3", "i9"}}
    \* placements
    \cup {Join6(p, "b", "q", "h6", "2", "3")
             : p \in {"8/8/8/8/8/8/8", "8", "8/8/8/8/8/8/8/8/K",
                      "4k3/8/8/8/8/8/8/Kx1Q3R", "k/1p/0p/9/x/8/8/",
                      "rnbqkbnrr/8/8/8/8/8/8/8", "8/8/8/8/8/8/8/7PP"}}
    \* the wrong number of fields
    \cup {Chars(""), Chars("   "),
          Chars("8/8/8/8/8/8/8/8 b - - 5"),
          Chars("8/8/8/8/8/8/8/8 b - - 5 7 8"),
          Chars("4k3/8/8/8/8/8/8/4K3 b")}

\* the fields of each input record, split once
FenFields == [fen \in FenInputs |-> split_ascii_whitespace(fen)]

\* as field_count_ok, more fields accepted
field_count_at_least(fen_fields) == Len(fen_fields) >= 6

field_count_ok(fen_fields) == Len(fen_fields) = 6

\* as side_from_field, lowercase only
side_from_field_lowercase(side_to_move) ==
    IF side_to_move = <<"b">> THEN Black ELSE White

side_from_field(side_to_move) ==
    IF side_to_move \in {<<"w">>, <<"W">>} THEN White
    ELSE IF side_to_move \in {<<"b">>, <<"B">>} THEN Black
    ELSE White

castling_from_field(castl) ==
    [white_king_side |-> contains(castl, "K"),
     white_queen_side |-> contains(castl, "Q"),
     black_king_side |-> contains(castl, "k"),
     black_queen_side |-> contains(castl, "q")]

FileLetters == Range(SubSeq(LowerLetters, 1, 8))

enpassant_file(file) ==
    IF file \in FileLetters
    THEN Some(IndexOf(LowerLetters, file) - 1)
    ELSE None

\* as enpassant_rank, every rank of the board accepted
enpassant_rank_any(rank) ==
    IF rank \in {"1", "2", "3", "4", "5", "6", "7", "8"}
    THEN Some(to_digit(rank))
    ELSE None

enpassant_rank(rank) ==
    CASE rank = "3" -> Some(3)
      [] rank = "6" -> Some(6)
      [] OTHER -> None

\* the en-passant field: the new target, or why there is none
enpassant_from_field(en_passant) ==
    IF en_passant = <<"-">> THEN [status |-> "ok", value |-> None]
    ELSE IF Len(en_passant) < 2 THEN [status |-> "panic", value |-> None]
    ELSE LET file == enpassant_file(en_passant[1])
             rank == enpassant_rank(en_passant[2])
         IN IF file = None \/ rank = None
            THEN [status |-> "err", value |-> None]
            ELSE [status |-> "ok", value |-> Some(Coord(file[1], rank[1]))]

RECURSIVE decimal_value(_, _)
decimal_value(s, acc) ==
    IF s = <<>> THEN acc ELSE decimal_value(Tail(s), acc * 10 + to_digit(Head(s)))

RECURSIVE strip_zeros(_)
strip_zeros(s) == IF s # <<>> /\ Head(s) = "0" THEN strip_zeros(Tail(s)) ELSE s

\* the decimal digits of u32::MAX
U32_MAX_DIGITS == Chars("4294967295")

\* whether the digit string a is a larger number than b, for equal lengths
RECURSIVE digits_greater(_, _)
digits_greater(a, b) ==
    IF a = <<>> THEN FALSE
    ELSE IF Head(a) # Head(b) THEN to_digit(Head(a)) > to_digit(Head(b))
    ELSE digits_greater(Tail(a), Tail(b))

overflows_u32(digits) ==
    LET sig == strip_zeros(digits) IN
    \/ Len(sig) > Len(U32_MAX_DIGITS)
    \/ Len(sig) = Len(U32_MAX_DIGITS) /\ digits_greater(sig, U32_MAX_DIGITS)

\* str::parse::<u32>().unwrap_or(0): an optional "+", then one or more digits
parse_u32_or_0(s) ==
    LET digits == IF s # <<>> /\ Head(s) = "+" THEN Tail(s) ELSE s IN
    IF digits = <<>> \/ \E i \in 1..Len(digits) : ~is_ascii_digit(digits[i]) THEN 0
    ELSE IF overflows_u32(digits) THEN 0
    ELSE decimal_value(digits, 0)

\* as apply_fen, the board not cleared before the placement is decoded
apply_fen_without_clear(g, fen) ==
    LET fen_fields == FenFields[fen] IN
    IF ~field_count_ok(fen_fields) THEN [game |-> g, status |-> "err"]
    ELSE
      LET placed == set_position_from_fen(g.board, fen_fields[1])
          g1 == [g EXCEPT !.board = placed.board]
      IN
      IF placed.status # "ok" THEN [game |-> g1, status |-> placed.status]
      ELSE
        LET g2 == [g1 EXCEPT !.side_to_move = side_from_field(fen_fields[2]),
                             !.castling_rights = castling_from_field(fen_fields[3])]
            ep == enpassant_from_field(fen_fields[4])
        IN
        IF ep.status # "ok" THEN [game |-> g2, status |-> ep.status]
        ELSE [game |-> [g2 EXCEPT !.enpassant_target_square = ep.value,
                                  !.halfmove_clock = parse_u32_or_0(fen_fields[5]),
                                  !.fullmove_clock = parse_u32_or_0(fen_fields[6])],
              status |-> "ok"]

apply_fen(g, fen) ==
    LET fen_fields == FenFields[fen] IN
    IF ~field_count_ok(fen_fields) THEN [game |-> g, status |-> "err"]
    ELSE
      LET placed == set_position_from_fen(board_clear(g.board), fen_fields[1])
          g1 == [g EXCEPT !.board = placed.board]
      IN
      IF placed.status # "ok" THEN [game |-> g1, status |-> placed.status]
      ELSE
        LET g2 == [g1 EXCEPT !.side_to_move = side_from_field(fen_fields[2]),
                             !.castling_rights = castling_from_field(fen_fields[3])]
            ep == enpassant_from_field(fen_fields[4])
        IN
        IF ep.status # "ok" THEN [game |-> g2, status |-> ep.status]
        ELSE [game |-> [g2 EXCEPT !.enpassant_target_square = ep.value,
                                  !.halfmove_clock = parse_u32_or_0(fen_fields[5]),
                                  !.fullmove_clock = parse_u32_or_0(fen_fields[6])],
              status |-> "ok"]

\* ChessGame::new_position
new_position(fen) ==
    LET r == apply_fen(game_default, fen) IN
    [status |-> r.status, value |-> r.game]

game_new == apply_fen(game_default, STARTING_FEN).game

game_clear(g) == [g EXCEPT !.board = board_clear(g.board)]

set_piece(g, coord, piece) ==
    [g EXCEPT !.board.squares[to_usize(coord)] = Some(piece)]

\* ------------------------------------------------------------ Move

\* Move::new
move_new(source, target, piece, promoted_piece) ==
    [source |-> source, target |-> target, piece |-> piece,
     promoted_piece |-> promoted_piece,
     capture |-> FALSE, castling |-> FALSE, double_push |-> FALSE,
     enpassant |-> FALSE]

\* as capture, the receiver left as it was
capture_on_a_copy(m, v) ==
    [self |-> m, value |-> [m EXCEPT !.capture = v]]

\* the flag setters take &mut self: self is the receiver after the call, value
\* the copy returned
capture(m, v) ==
    LET m2 == [m EXCEPT !.capture = v] IN [self |-> m2, value |-> m2]

castling(m, v) ==
    LET m2 == [m EXCEPT !.castling = v] IN [self |-> m2, value |-> m2]

double_push(m, v) ==
    LET m2 == [m EXCEPT !.double_push = v] IN [self |-> m2, value |-> m2]

enpassant(m, v) ==
    LET m2 == [m EXCEPT !.enpassant = v] IN [self |-> m2, value |-> m2]

\* Move::new_pawn_double_push
new_pawn_double_push(color, source) ==
    LET target == IF color = White
                  THEN unwrap_or(next_up(unwrap_or(next_up(source), source)), source)
                  ELSE unwrap_or(next_down(unwrap_or(next_down(source), source)), source)
        m0 == move_new(source, target, Piece("Pawn", color), None)
        m1 == double_push(m0, TRUE).value
        m2 == capture(m1, FALSE).value
        m3 == castling(m2, FALSE).value
    IN enpassant(m3, FALSE).value

\* ------------------------------------------------------------ inputs

\* the selections callers add
Selections ==
    {[squares |-> <<28>>, color |-> [red |-> 255, green |-> 0, blue |-> 0]]}

\* the most selections a board is given
MaxSelections == 1

\* the squares and pieces callers set directly
SetCoords == {Coord(4, 3)}
SetPieces == {Piece("Queen", Black)}

\* the rank strings of the placements given to the board directly
RankStrings ==
    {"", "K", "x", "8", "9", "0p", "4k3", "Kx1Q3R", "1p1P2xq", "pppppppp", "7PP", "8p", "3x4N"}

Placement8(i, rs) ==
    [j \in 1..15 |-> IF j % 2 = 0 THEN <<"/">> ELSE IF j = 2 * i + 1 THEN Chars(rs) ELSE <<"8">>]

RECURSIVE Concat(_)
Concat(ss) == IF ss = <<>> THEN <<>> ELSE Head(ss) \o Concat(Tail(ss))

\* the placements callers pass to Board::set_position_from_fen
Placements ==
    {Concat(Placement8(i, rs)) : i \in {0, 4, 7}, rs \in RankStrings}
    \cup {DEFAULT_PIECE_PLACEMENT,
          Chars("8/8/8/8/8/8/8"), Chars("8"), Chars(""), Chars("8/8/8/8/8/8/8/8/K"),
          Chars("r3k2r/8/8/8/8/8/8/R3K2R"), Chars("k/1p/0p/9/x/8/8/")}

\* the most direct calls of Board::set_position_from_fen in one run
MaxPlacements == 1

\* the records given to apply_fen between direct board calls
BoardFens ==
    {STARTING_FEN, Chars("8/8/8/8/8/8/8/8 b - - 5 7")}
    \cup {Join6(p, "b", "q", "h6", "2", "3") : p \in {"8/8/8/8/8/8/8", "8", "8/8/8/8/8/8/8/8/K"}}

\* the characters of the strings parsed as a Coord
CoordAlphabet ==
    FileLetters \cup Range(SubSeq(UpperLetters, 1, 8)) \cup Range(SubSeq(Digits, 2, 9))
      \cup {"i", "I", "z", "0", "9", "_", "@", "/", ":"}

\* the most characters of a string parsed as a Coord
MaxCoordLen == 3

RECURSIVE StringsUpTo(_, _)
StringsUpTo(alphabet, n) ==
    IF n = 0 THEN {<<>>}
    ELSE LET shorter == StringsUpTo(alphabet, n - 1) IN
         shorter \cup {Append(s, c) : s \in {t \in shorter : Len(t) = n - 1}, c \in alphabet}

\* strings of up to two characters, and longer ones over a smaller alphabet
CoordInputs ==
    StringsUpTo(CoordAlphabet, 2) \cup StringsUpTo({"a", "H", "1", "8", "0", "x"}, MaxCoordLen)

CoordsInRange == {Coord(f, r) : f \in 0..7, r \in 0..7}

\* the coordinates stepped from: the board, and one past its upper edges
StepCoords == {Coord(f, r) : f \in 0..8, r \in 0..8}

\* the double pushes built: either colour from every square of the board
DoublePushInputs == Color \X CoordsInRange

\* the moves a setter is called on: one knight move under every combination of
\* the four flags
SetterMoves ==
    {[move_new(Coord(1, 0), Coord(2, 2), Piece("Knight", White), None)
        EXCEPT !.capture = c, !.castling = k, !.double_push = d, !.enpassant = e] :
     c \in BOOLEAN, k \in BOOLEAN, d \in BOOLEAN, e \in BOOLEAN}

SetterInputs == SetterMoves \X BOOLEAN

\* ------------------------------------------------------------ actions

running == ret.status # "panic"

\* let g = ChessGame::new()
New ==
    /\ running
    /\ UNCHANGED nplace
    /\ pre' = game
    /\ game' = game_new
    /\ op' = "new"
    /\ arg' = <<>>
    /\ ret' = [status |-> "ok"]

ApplyFen(fen) ==
    /\ running
    /\ UNCHANGED nplace
    /\ pre' = game
    /\ LET r == apply_fen(game, fen) IN
         /\ game' = r.game
         /\ ret' = [status |-> r.status]
    /\ op' = "apply_fen"
    /\ arg' = fen

Clear ==
    /\ running
    /\ UNCHANGED nplace
    /\ pre' = game
    /\ game' = game_clear(game)
    /\ op' = "clear"
    /\ arg' = <<>>
    /\ ret' = [status |-> "ok"]

SetPiece(coord, piece) ==
    /\ running
    /\ UNCHANGED nplace
    /\ pre' = game
    /\ game' = set_piece(game, coord, piece)
    /\ op' = "set_piece"
    /\ arg' = <<coord, piece>>
    /\ ret' = [status |-> "ok"]

AddSelection(sel) ==
    /\ running
    /\ UNCHANGED nplace
    /\ Len(game.board.selections) < MaxSelections
    /\ pre' = game
    /\ game' = [game EXCEPT !.board = add_selection(game.board, sel)]
    /\ op' = "add_selection"
    /\ arg' = sel
    /\ ret' = [status |-> "ok"]

\* game.board.perspective = color, the field being public
SetPerspective(color) ==
    /\ running
    /\ UNCHANGED nplace
    /\ game.board.perspective # color
    /\ pre' = game
    /\ game' = [game EXCEPT !.board.perspective = color]
    /\ op' = "set_perspective"
    /\ arg' = color
    /\ ret' = [status |-> "ok"]

\* game.board.set_position_from_fen(piece_placement), the field being public
SetPositionFromFen(piece_placement) ==
    /\ running
    /\ nplace < MaxPlacements
    /\ nplace' = nplace + 1
    /\ pre' = game
    /\ LET r == set_position_from_fen(game.board, piece_placement) IN
         /\ game' = [game EXCEPT !.board = r.board]
         /\ ret' = [status |-> r.status]
    /\ op' = "set_position_from_fen"
    /\ arg' = piece_placement

\* s.parse::<Coord>(), s the string drawn at the start
CoordFromStr ==
    /\ op = "input_str"
    /\ op' = "from_str"
    /\ ret' \in from_str(arg)
    /\ UNCHANGED <<game, pre, arg, nplace>>

\* coord.to_string(), coord the Coord drawn at the start
CoordToString ==
    /\ op = "input_coord"
    /\ op' = "to_string"
    /\ ret' = [status |-> "ok", value |-> to_string(arg)]
    /\ UNCHANGED <<game, pre, arg, nplace>>

Init ==
    /\ game = game_new
    /\ pre = game_default
    /\ op = "new"
    /\ arg = <<>>
    /\ ret = [status |-> "ok"]
    /\ nplace = 0

Next ==
    \/ New
    \/ \E fen \in FenInputs : ApplyFen(fen)
    \/ Clear
    \/ \E c \in SetCoords, p \in SetPieces : SetPiece(c, p)
    \/ \E sel \in Selections : AddSelection(sel)
    \/ \E color \in Color : SetPerspective(color)

Spec == Init /\ [][Next]_vars

\* the board used directly, between whole-game calls
NextBoard ==
    \/ New
    \/ \E fen \in BoardFens : ApplyFen(fen)
    \/ Clear
    \/ \E sel \in Selections : AddSelection(sel)
    \/ \E piece_placement \in Placements : SetPositionFromFen(piece_placement)

SpecBoard == Init /\ [][NextBoard]_vars

\* Coord parsed and formatted: the input is drawn at the start
InitCoord ==
    /\ game = game_new
    /\ pre = game_default
    /\ \/ op = "input_str" /\ arg \in CoordInputs
       \/ op = "input_coord" /\ arg \in CoordsInRange
    /\ ret = [status |-> "ok"]
    /\ nplace = 0

NextCoord ==
    \/ CoordFromStr
    \/ CoordToString

SpecCoord == InitCoord /\ [][NextCoord]_vars

StepOps == {"next_up", "next_down", "next_left", "next_right"}

\* a walk goes on from the coordinate the last step returned
walking == op = "input_coord" \/ (op \in StepOps /\ ret.value # None)

walk_from == IF op = "input_coord" THEN arg ELSE ret.value[1]

\* coord.next_up()
NextUp ==
    /\ walking
    /\ op' = "next_up"
    /\ arg' = walk_from
    /\ ret' = [status |-> "ok", value |-> next_up(walk_from)]
    /\ UNCHANGED <<game, pre, nplace>>

\* coord.next_down()
NextDown ==
    /\ walking
    /\ op' = "next_down"
    /\ arg' = walk_from
    /\ ret' = [status |-> "ok", value |-> next_down(walk_from)]
    /\ UNCHANGED <<game, pre, nplace>>

\* coord.next_left()
NextLeft ==
    /\ walking
    /\ op' = "next_left"
    /\ arg' = walk_from
    /\ ret' = [status |-> "ok", value |-> next_left(walk_from)]
    /\ UNCHANGED <<game, pre, nplace>>

\* coord.next_right()
NextRight ==
    /\ walking
    /\ op' = "next_right"
    /\ arg' = walk_from
    /\ ret' = [status |-> "ok", value |-> next_right(walk_from)]
    /\ UNCHANGED <<game, pre, nplace>>

\* Move::new_pawn_double_push(color, source)
NewPawnDoublePush ==
    /\ op = "input_double_push"
    /\ op' = "new_pawn_double_push"
    /\ ret' = [status |-> "ok", value |-> new_pawn_double_push(arg[1], arg[2])]
    /\ UNCHANGED <<game, pre, arg, nplace>>

\* m.capture(v)
SetCapture ==
    /\ op = "input_setter"
    /\ op' = "capture"
    /\ LET r == capture(arg[1], arg[2]) IN
         ret' = [status |-> "ok", value |-> r.value, self |-> r.self]
    /\ UNCHANGED <<game, pre, arg, nplace>>

\* m.castling(v)
SetCastling ==
    /\ op = "input_setter"
    /\ op' = "castling"
    /\ LET r == castling(arg[1], arg[2]) IN
         ret' = [status |-> "ok", value |-> r.value, self |-> r.self]
    /\ UNCHANGED <<game, pre, arg, nplace>>

\* m.double_push(v)
SetDoublePush ==
    /\ op = "input_setter"
    /\ op' = "double_push"
    /\ LET r == double_push(arg[1], arg[2]) IN
         ret' = [status |-> "ok", value |-> r.value, self |-> r.self]
    /\ UNCHANGED <<game, pre, arg, nplace>>

\* m.enpassant(v)
SetEnPassant ==
    /\ op = "input_setter"
    /\ op' = "enpassant"
    /\ LET r == enpassant(arg[1], arg[2]) IN
         ret' = [status |-> "ok", value |-> r.value, self |-> r.self]
    /\ UNCHANGED <<game, pre, arg, nplace>>

\* Coord stepped and Move built: the input is drawn at the start
InitMove ==
    /\ game = game_new
    /\ pre = game_default
    /\ \/ op = "input_coord" /\ arg \in StepCoords
       \/ op = "input_double_push" /\ arg \in DoublePushInputs
       \/ op = "input_setter" /\ arg \in SetterInputs
    /\ ret = [status |-> "ok"]
    /\ nplace = 0

NextMove ==
    \/ NextUp
    \/ NextDown
    \/ NextLeft
    \/ NextRight
    \/ NewPawnDoublePush
    \/ SetCapture
    \/ SetCastling
    \/ SetDoublePush
    \/ SetEnPassant

SpecMove == InitMove /\ [][NextMove]_vars

\* ------------------------------------------------------------ properties

\* what the strings say, read off their characters directly

\* the number of maximal runs of non-whitespace characters
FieldCount(fen) ==
    Cardinality({i \in 1..Len(fen) :
        /\ fen[i] \notin {" ", "\t", "\n", "\r", "\f"}
        /\ (i = 1 \/ fen[i - 1] \in {" ", "\t", "\n", "\r", "\f"})})

Field(fen, k) == FenFields[fen][k]

SlashAt(p) == {i \in 1..Len(p) : p[i] = "/"}

GroupCount(p) == Cardinality(SlashAt(p)) + 1

\* the position of the k-th slash; 0 before the first group, Len + 1 after the last
SlashNo(p, k) ==
    IF k = 0 THEN 0
    ELSE IF k > Cardinality(SlashAt(p)) THEN Len(p) + 1
    ELSE CHOOSE i \in SlashAt(p) : Cardinality({j \in SlashAt(p) : j <= i}) = k

\* the k-th group, k from 0
Group(p, k) == SubSeq(p, SlashNo(p, k) + 1, SlashNo(p, k + 1) - 1)

DigitValue(c) == CHOOSE d \in 0..9 : Digits[d + 1] = c

PieceLetters == {"P", "N", "B", "R", "Q", "K", "p", "n", "b", "r", "q", "k"}

KindOf ==
    [c \in {"P", "N", "B", "R", "Q", "K"} |->
        CASE c = "P" -> "Pawn" [] c = "N" -> "Knight" [] c = "B" -> "Bishop"
          [] c = "R" -> "Rook" [] c = "Q" -> "Queen" [] c = "K" -> "King"]

UpperOf(c) == IF c \in LowerSet THEN UpperLetters[IndexOf(LowerLetters, c)] ELSE c
LowerOf(c) == IF c \in UpperSet THEN LowerLetters[IndexOf(UpperLetters, c)] ELSE c

ExpectedPiece(c) ==
    IF c \in DOMAIN KindOf THEN Some(Piece(KindOf[c], White))
    ELSE IF c \in PieceLetters THEN Some(Piece(KindOf[UpperOf(c)], Black))
    ELSE None

\* the file cursor before the j-th character of a rank string: a digit d moves
\* it by d, any other character by one
RECURSIVE CursorBefore(_, _)
CursorBefore(cs, j) ==
    IF j = 1 THEN 0
    ELSE CursorBefore(cs, j - 1)
           + (IF cs[j - 1] \in DigitSet THEN DigitValue(cs[j - 1]) ELSE 1)

\* 8 groups, none moving the file cursor past file h
PlacementInRange(p) ==
    /\ GroupCount(p) = 8
    /\ \A k \in 0..7 : CursorBefore(Group(p, k), Len(Group(p, k)) + 1) <= 8

\* the characters that are not digits, at the square they are decoded onto
WrittenAt(p, t) ==
    LET cs == Group(p, 7 - (t \div 8)) IN
    {cs[j] : j \in {i \in 1..Len(cs) : cs[i] \notin DigitSet /\ CursorBefore(cs, i) = t % 8}}

DecodedSquares(p, before) ==
    [t \in Tiles |->
        IF WrittenAt(p, t) = {} THEN before[t]
        ELSE ExpectedPiece(CHOOSE c \in WrittenAt(p, t) : TRUE)]

\* the same with the characters that are neither digits nor piece letters absent
RECURSIVE CursorSkipping(_, _)
CursorSkipping(cs, j) ==
    IF j = 1 THEN 0
    ELSE CursorSkipping(cs, j - 1)
           + (IF cs[j - 1] \in DigitSet THEN DigitValue(cs[j - 1])
              ELSE IF cs[j - 1] \in PieceLetters THEN 1 ELSE 0)

PlacedAtSkipping(p, t) ==
    LET cs == Group(p, 7 - (t \div 8)) IN
    {cs[j] : j \in {i \in 1..Len(cs) : cs[i] \in PieceLetters /\ CursorSkipping(cs, i) = t % 8}}

DecodedSquaresSkipping(p, before) ==
    [t \in Tiles |->
        IF PlacedAtSkipping(p, t) = {} THEN before[t]
        ELSE ExpectedPiece(CHOOSE c \in PlacedAtSkipping(p, t) : TRUE)]

\* everything of the game but the board
Meta(g) ==
    <<g.side_to_move, g.castling_rights, g.enpassant_target_square,
      g.halfmove_clock, g.fullmove_clock>>

BackRank == <<"Rook", "Knight", "Bishop", "Queen", "King", "Bishop", "Knight", "Rook">>

\* the standard starting position, square by square
StandardSquares ==
    [t \in Tiles |->
        CASE t \div 8 = 0 -> Some(Piece(BackRank[(t % 8) + 1], White))
          [] t \div 8 = 1 -> Some(Piece("Pawn", White))
          [] t \div 8 = 6 -> Some(Piece("Pawn", Black))
          [] t \div 8 = 7 -> Some(Piece(BackRank[(t % 8) + 1], Black))
          [] OTHER -> None]

StandardGame ==
    [board |-> [squares |-> StandardSquares, selections |-> <<>>, perspective |-> White],
     castling_rights |-> [white_king_side |-> TRUE, white_queen_side |-> TRUE,
                          black_king_side |-> TRUE, black_queen_side |-> TRUE],
     side_to_move |-> White,
     enpassant_target_square |-> None,
     halfmove_clock |-> 0,
     fullmove_clock |-> 1]

EnPassantWellFormed(e) ==
    \/ e = <<"-">>
    \/ Len(e) = 2 /\ e[1] \in {"a", "b", "c", "d", "e", "f", "g", "h"} /\ e[2] \in {"3", "6"}

\* a file letter a-h in either case, then a rank digit 1-8
ValidAlgebraic(s) ==
    /\ Len(s) = 2
    /\ LowerOf(s[1]) \in {"a", "b", "c", "d", "e", "f", "g", "h"}
    /\ s[2] \in {"1", "2", "3", "4", "5", "6", "7", "8"}

\* C1: apply_fen of a string that does not split into exactly 6 fields returns an
\* error and leaves the whole game (board, selections, perspective, side to move,
\* castling rights, en-passant target, both clocks) as it was.
C1_WrongFieldCountChangesNothing ==
    (op = "apply_fen" /\ FieldCount(arg) # 6) => (ret.status = "err" /\ game = pre)

C1_Witness ==
    /\ op = "apply_fen"
    /\ FieldCount(arg) = 7
    /\ ret.status = "err"
    /\ pre.board.selections # <<>>
    /\ pre.enpassant_target_square # None
    /\ pre.side_to_move = Black

\* C2: ChessGame::new() succeeds and yields the standard starting position, White to
\* move, all castling rights, no en-passant target, clocks 0 and 1; apply_fen of the
\* starting FEN gives that same game from any prior state.
C2_NewIsStandardStart ==
    (op = "new" \/ (op = "apply_fen" /\ arg = STARTING_FEN))
        => (ret.status = "ok" /\ game = StandardGame)

C2_Witness ==
    /\ op = "apply_fen"
    /\ arg = STARTING_FEN
    /\ game = StandardGame
    /\ pre.side_to_move = Black
    /\ pre.board.selections # <<>>
    /\ pre.board.perspective = Black
    /\ pre.enpassant_target_square # None

C4_UnknownCharacterIsAbsent ==
    (op = "set_position_from_fen" /\ PlacementInRange(arg))
        => /\ ret.status = "ok"
           /\ game.board.squares = DecodedSquaresSkipping(arg, pre.board.squares)

\* C4, amended: as above, but any other character empties the square at the
\* cursor and moves the cursor by one; nothing else of the game changes.
C4_UnknownCharacterTakesASquare ==
    (op = "set_position_from_fen" /\ PlacementInRange(arg))
        => /\ ret.status = "ok"
           /\ game.board.squares = DecodedSquares(arg, pre.board.squares)
           /\ game.board.selections = pre.board.selections
           /\ game.board.perspective = pre.board.perspective
           /\ Meta(game) = Meta(pre)

C4_Witness ==
    /\ op = "set_position_from_fen"
    /\ PlacementInRange(arg)
    /\ ret.status = "ok"
    /\ Group(arg, 7) = Chars("Kx1Q3R")
    /\ pre.board.squares = StandardSquares
    /\ game.board.squares[1] = None
    /\ game.board.squares[3] = Some(Piece("Queen", White))
    /\ game.board.squares[7] = Some(Piece("Rook", White))

\* C5: with a valid placement, the en-passant field "-" sets the target to none,
\* and a field of a file letter a-h and a rank digit 3 or 6 stores the square it
\* names: the stored target formatted in algebraic notation is the field.
C5_EnPassantFieldRoundTrips ==
    (op = "apply_fen" /\ FieldCount(arg) = 6 /\ PlacementInRange(Field(arg, 1)))
        => /\ Field(arg, 4) = <<"-">>
                => (ret.status = "ok" /\ game.enpassant_target_square = None)
           /\ (Field(arg, 4) # <<"-">> /\ EnPassantWellFormed(Field(arg, 4)))
                => /\ ret.status = "ok"
                   /\ game.enpassant_target_square # None
                   /\ to_string(game.enpassant_target_square[1]) = Field(arg, 4)

\* C6: with well-formed placement and en-passant fields apply_fen succeeds
\* whatever the side-to-move field, and the side to move is Black exactly when the
\* field is "b" or "B", White otherwise, whatever it was before.
C6_SideToMoveDefaultsToWhite ==
    (/\ op = "apply_fen"
     /\ FieldCount(arg) = 6
     /\ PlacementInRange(Field(arg, 1))
     /\ EnPassantWellFormed(Field(arg, 4)))
        => /\ ret.status = "ok"
           /\ game.side_to_move =
                (IF Field(arg, 2) \in {<<"b">>, <<"B">>} THEN Black ELSE White)

C6_Witness ==
    /\ op = "apply_fen"
    /\ FieldCount(arg) = 6
    /\ Field(arg, 2) = <<"x">>
    /\ pre.side_to_move = Black
    /\ ret.status = "ok"
    /\ game.side_to_move = White

\* C7: ChessGame::clear empties all 64 squares, drops every selection and resets
\* the perspective to White, and leaves side to move, castling rights, en-passant
\* target and both clocks as they were.
C7_ClearResetsTheBoardOnly ==
    op = "clear"
        => /\ ret.status = "ok"
           /\ \A t \in Tiles : game.board.squares[t] = None
           /\ game.board.selections = <<>>
           /\ game.board.perspective = White
           /\ Meta(game) = Meta(pre)

C7_Witness ==
    /\ op = "clear"
    /\ pre.board.squares # EmptySquares
    /\ pre.board.selections # <<>>
    /\ pre.board.perspective = Black
    /\ pre.side_to_move = Black
    /\ pre.enpassant_target_square # None
    /\ pre.castling_rights # castling_default
    /\ pre.halfmove_clock # 0

\* C8: apply_fen always completes, returning success or an error; it never aborts.
C8_ApplyFenNeverAborts ==
    op = "apply_fen" => ret.status \in {"ok", "err"}

\* C9: parsing a malformed string (not two characters, first outside a-h / A-H,
\* second outside 1-8) as a Coord returns a parse error; parsing never aborts and
\* never returns a file or rank of 8 or more.
C9_MalformedCoordIsAnError ==
    op = "from_str"
        => /\ ~ValidAlgebraic(arg) => ret.status = "err"
           /\ ret.status # "panic"
           /\ ret.status = "ok" => (ret.value[1].file < 8 /\ ret.value[1].rank < 8)

\* C10: a valid two-character algebraic string parses to a Coord whose formatting
\* is the string in lowercase, and every in-range Coord formats to a string that
\* parses back to it.
C10_ParseFormatRoundTrip ==
    /\ (op = "from_str" /\ ValidAlgebraic(arg))
         => /\ ret.status = "ok"
            /\ to_string(ret.value[1]) = <<LowerOf(arg[1]), arg[2]>>
    /\ op = "to_string"
         => from_str(ret.value) = {[status |-> "ok", value |-> Some(arg)]}

C10_Witness ==
    /\ op = "from_str"
    /\ arg = <<"H", "8">>
    /\ ret.status = "ok"
    /\ ret.value = Some(Coord(7, 7))

\* the steps a walk in one direction takes before there is no neighbour, counted
\* up to a whole board's worth
RECURSIVE StepsToNone(_, _, _)
StepsToNone(dir, c, n) ==
    LET next == CASE dir = "next_up" -> next_up(c)
                  [] dir = "next_down" -> next_down(c)
                  [] dir = "next_left" -> next_left(c)
                  [] dir = "next_right" -> next_right(c)
    IN IF next = None \/ n >= 64 THEN n ELSE StepsToNone(dir, next[1], n + 1)

\* C11: from a Coord with file and rank in 0..7, next_up / next_down / next_right /
\* next_left return the neighbour one rank up / one rank down / one file right /
\* one file left, or none at the edge; a returned Coord is in range and differs by
\* one on the moved axis only, so a walk in one direction ends in none after at
\* most 7 steps.  next_up and next_right return none at rank 8 and file 8.
C11_NeighbourSteps ==
    op \in StepOps =>
        /\ (arg.file <= 7 /\ arg.rank <= 7) =>
              /\ op = "next_up" =>
                    ret.value = (IF arg.rank <= 6 THEN <<[file |-> arg.file, rank |-> arg.rank + 1]>>
                                 ELSE <<>>)
              /\ op = "next_down" =>
                    ret.value = (IF arg.rank >= 1 THEN <<[file |-> arg.file, rank |-> arg.rank - 1]>>
                                 ELSE <<>>)
              /\ op = "next_right" =>
                    ret.value = (IF arg.file <= 6 THEN <<[file |-> arg.file + 1, rank |-> arg.rank]>>
                                 ELSE <<>>)
              /\ op = "next_left" =>
                    ret.value = (IF arg.file >= 1 THEN <<[file |-> arg.file - 1, rank |-> arg.rank]>>
                                 ELSE <<>>)
              /\ ret.value # <<>> =>
                    /\ ret.value[1].file \in 0..7
                    /\ ret.value[1].rank \in 0..7
                    /\ IF op \in {"next_up", "next_down"}
                       THEN /\ ret.value[1].file = arg.file
                            /\ ret.value[1].rank - arg.rank \in {-1, 1}
                       ELSE /\ ret.value[1].rank = arg.rank
                            /\ ret.value[1].file - arg.file \in {-1, 1}
              /\ StepsToNone(op, arg, 0) <= 7
        /\ (op = "next_up" /\ arg.rank = 8) => ret.value = <<>>
        /\ (op = "next_right" /\ arg.file = 8) => ret.value = <<>>

\* the seventh step of a walk up the a file, and the end of the walk after it
C11_Witness ==
    /\ op = "next_up"
    /\ arg = Coord(0, 7)
    /\ ret.value = None
    /\ StepsToNone("next_up", Coord(0, 0), 0) = 7

\* the rank a pawn of the colour reaches from the rank, two ranks forward where
\* two remain, one where one remains, none where it stands on its last rank
ForwardTwoOrLess(color, rank) ==
    IF color = White
    THEN (IF rank + 2 <= 7 THEN rank + 2 ELSE 7)
    ELSE (IF rank - 2 >= 0 THEN rank - 2 ELSE 0)

\* C12: new_pawn_double_push(color, source) with source on the board never fails;
\* its target is on the source's file, two ranks forward (up for White, down for
\* Black) when two ranks remain, one rank forward when only one remains, the
\* source itself on the last rank; the move carries Pawn(color), no promotion,
\* double_push set, capture, en passant and castling unset.
C12_DoublePushSaturatesToOneStep ==
    op = "new_pawn_double_push" =>
        /\ ret.status = "ok"
        /\ ret.value.source = arg[2]
        /\ ret.value.target.file = arg[2].file
        /\ ret.value.target.rank = ForwardTwoOrLess(arg[1], arg[2].rank)
        /\ ret.value.piece = [kind |-> "Pawn", color |-> arg[1]]
        /\ ret.value.promoted_piece = <<>>
        /\ ret.value.double_push = TRUE
        /\ ret.value.capture = FALSE
        /\ ret.value.enpassant = FALSE
        /\ ret.value.castling = FALSE

SetterOps == {"capture", "castling", "double_push", "enpassant"}

\* the move with the flag the setter names set to the value
WithFlag(m, flag, v) ==
    [f \in DOMAIN m |-> IF f = flag THEN v ELSE m[f]]

\* C13 as stated: a flag setter called on a move m with a value v returns a move
\* equal to m in every field but the named flag, which is v, and leaves m as it
\* was, so that a later read of m shows the old flag.
C13_SettersLeaveTheReceiver ==
    op \in SetterOps =>
        /\ ret.value = WithFlag(arg[1], op, arg[2])
        /\ ret.self = arg[1]

\* C13: a flag setter called on a move m with a value v sets the named flag of m
\* itself to v and leaves the other fields of m as they were; it returns a copy
\* equal to the updated m, so that a later read of m shows the new flag.
C13_SettersUpdateTheReceiver ==
    op \in SetterOps =>
        /\ ret.value = WithFlag(arg[1], op, arg[2])
        /\ ret.self = ret.value

\* capture(true) on a move that was no capture: the move itself is one afterwards
C13_Witness ==
    /\ op = "capture"
    /\ arg[1].capture = FALSE
    /\ arg[1].castling = TRUE
    /\ arg[2] = TRUE
    /\ ret.self.capture = TRUE
    /\ ret.self.castling = TRUE

C15_ApplyFenDependsOnTheRecordOnly ==
    (op = "apply_fen" /\ ret.status = "ok")
        => /\ new_position(arg).status = "ok"
           /\ game = new_position(arg).value
           /\ game.board.selections = <<>>
           /\ game.board.perspective = White
           /\ apply_fen(game, arg) = [game |-> game, status |-> "ok"]

\* a record applied to a game with a selection, the Black perspective and other
\* pieces, rights, target and clocks
C15_Witness ==
    /\ op = "apply_fen"
    /\ ret.status = "ok"
    /\ arg # STARTING_FEN
    /\ pre.board.selections # <<>>
    /\ pre.board.perspective = Black
    /\ pre.board.squares # game.board.squares
    /\ pre.board.squares # EmptySquares
    /\ pre.side_to_move # game.side_to_move
    /\ pre.castling_rights # game.castling_rights
    /\ pre.enpassant_target_square # game.enpassant_target_square
    /\ pre.halfmove_clock # game.halfmove_clock
    /\ pre.fullmove_clock # game.fullmove_clock

====
